---- MODULE Spec2Model ----
(***************************************************************************)
(* Model of etl.py: main() runs process_song_data and then                 *)
(* process_log_data against one input location and one output location.    *)
(* Dataframes and parquet tables are bags (multisets) of rows.  One action *)
(* per statement of the pipeline that touches the engine or can raise.     *)
(*                                                                         *)
(* etl.py imports only udf, col, year, month, dayofmonth, hour, weekofyear *)
(* and date_format from pyspark (lines 5-6).  TimestampType, used at line  *)
(* 91, is bound nowhere (nor are DateType, dayofweek and                   *)
(* monotonically_increasing_id, used further down), so line 91 raises      *)
(* NameError in every run that gets there, and lines 92-131 (time table,   *)
(* songs read-back, join, songplays write) are never executed.             *)
(***************************************************************************)
EXTENDS Bags, FiniteSets, Integers, Sequences, TLC

\* ---------------------------------------------------------------- bounds
MaxSongRecords == 2
MaxLogRecords == 2
MaxRuns == 2

\* ------------------------------------------------------- input universes
\* Song-metadata records found under song_data/*/*/*/*.json: two songs of
\* one artist, with the same title and duration; the files of S2 spell the
\* artist's name in two ways.
SongRecords ==
    {r \in [song_id : {"S1", "S2"}, title : {"Rock"}, artist_id : {"A1"},
            year : {2000}, duration : {200}, artist_name : {"X", "Y"},
            artist_location : {"NY"}, artist_latitude : {40},
            artist_longitude : {74}] :
        r.song_id = "S1" => r.artist_name = "X"}

\* Activity-log records found under log-data: plays carry a song and its
\* length, other pages carry neither.
LogRecords ==
    [page : {"NextSong"}, userId : {"1"}, firstName : {"Ann"},
     lastName : {"Lee"}, gender : {"F"}, level : {"free", "paid"},
     ts : {1000}, song : {"Rock", "Jazz"}, length : {200},
     sessionId : {5}, location : {"NY"}, userAgent : {"UA"}]
    \cup
    [page : {"Home"}, userId : {"1"}, firstName : {"Ann"},
     lastName : {"Lee"}, gender : {"F"}, level : {"free", "paid"},
     ts : {1000}, song : {"null"}, length : {0},
     sessionId : {5}, location : {"NY"}, userAgent : {"UA"}]

Tables == {"songs", "artists", "users", "time", "songplays"}

\* ------------------------------------------------------ bags / dataframes
Range(s) == {s[i] : i \in DOMAIN s}

SeqToBag(s) == [x \in Range(s) |-> Cardinality({i \in DOMAIN s : s[i] = x})]

BagsUpTo(U, n) == UNION {{SeqToBag(s) : s \in [1..k -> U]} : k \in 0..n}

RECURSIVE SumCopies(_, _)
SumCopies(S, df) ==
    IF S = {} THEN 0
    ELSE LET x == CHOOSE y \in S : TRUE
         IN  df[x] + SumCopies(S \ {x}, df)

\* df.select(...): one output row per input row, duplicates kept; cols maps
\* every row of df to its selected columns.
Select(df, cols) ==
    LET img == {cols[x] : x \in DOMAIN df}
    IN  [r \in img |-> SumCopies({x \in DOMAIN df : cols[x] = r}, df)]

\* df.dropDuplicates(): one copy of every distinct row.
DropDuplicates_keepAll(df) == df

DropDuplicates(df) == [r \in DOMAIN df |-> 1]

\* df[df['page'] == 'NextSong']
FilterNextSong_noFilter(df) == df

FilterNextSong(df) ==
    LET keep == {x \in DOMAIN df : x.page = "NextSong"}
    IN  [x \in keep |-> df[x]]

\* .write.mode('append').parquet(path): new files next to the old ones.
WriteAppend_overwrite(old, rows) == rows

WriteAppend_ignore(old, rows) == IF old = EmptyBag THEN rows ELSE old

WriteAppend(old, rows) == old (+) rows

\* ------------------------------------------------------------ projections
SongCols(r) ==
    [song_id |-> r.song_id, title |-> r.title, artist_id |-> r.artist_id,
     year |-> r.year, duration |-> r.duration]

ArtistCols(r) ==
    [artist_id |-> r.artist_id, artist_name |-> r.artist_name,
     artist_location |-> r.artist_location,
     artist_latitude |-> r.artist_latitude,
     artist_longitude |-> r.artist_longitude]

UserCols(r) ==
    [user_id |-> r.userId, first_name |-> r.firstName,
     last_name |-> r.lastName, gender |-> r.gender, level |-> r.level]

\* ------------------------------------------------------------ control flow
\* Names bound in the module namespace by the import statements.
ModuleNames ==
    {"configparser", "datetime", "os", "SparkSession", "udf", "col", "year",
     "month", "dayofmonth", "hour", "weekofyear", "date_format"}

\* main(): process_song_data is called first, process_log_data second.
MainEntry_logFirst == "L75"

MainEntry == "L38"

\* Statement reached when the statement at pc completes normally
\* (process_song_data returns to main, which calls process_log_data).
Succ(p) ==
    CASE p = "L38" -> "L48"
      [] p = "L48" -> "L58"
      [] p = "L58" -> "L75"
      [] p = "L75" -> "L88"
      [] p = "L88" -> "L91"

\* An exception is caught nowhere: it unwinds main and ends the process.
OnError_retry(p) == p

OnError(p) == "aborted"

\* Statements of process_log_data that reach the engine or can raise; L108,
\* L111 and L131 are the time write, the songs read-back and the songplays
\* write.
LogStmts == {"L75", "L88", "L91", "L108", "L111", "L131"}

\* The statement that writes each table.
WriteStmt ==
    [t \in Tables |->
        CASE t = "songs" -> "L48"
          [] t = "artists" -> "L58"
          [] t = "users" -> "L88"
          [] t = "time" -> "L108"
          [] t = "songplays" -> "L131"]

VARIABLES
    input,      \* content of the input location: [songs, logs], bags of records
    storage,    \* content of the output location: table -> bag of rows
    pc,         \* statement about to run, or "idle" / "aborted" / "done"
    df,         \* the dataframe bound to df in the running function
    run,        \* number of runs of main started so far
    err,        \* exception raised in the current run: "none", "engine", "NameError"
    trace,      \* statements executed in the current run, in order
    appended,   \* rows appended to each table by the current run
    changed,    \* a file left the input location since the last run started
    same,       \* the current run reads the input the previous run read
    prev        \* how the previous run ended: its exception and the row
                \* counts it left in the output location

vars == <<input, storage, pc, df, run, err, trace, appended, changed, same, prev>>

NoRows == [t \in Tables |-> EmptyBag]

RowCounts(st) == [t \in Tables |-> BagCardinality(st[t])]

Init ==
    /\ input \in [songs : BagsUpTo(SongRecords, MaxSongRecords),
                  logs : BagsUpTo(LogRecords, MaxLogRecords)]
    /\ storage = NoRows
    /\ pc = "idle"
    /\ df = EmptyBag
    /\ run = 0
    /\ err = "none"
    /\ trace = << >>
    /\ appended = NoRows
    /\ changed = FALSE
    /\ same = TRUE
    /\ prev = [err |-> "none", rows |-> RowCounts(NoRows)]

\* The statement at pc completes normally.
Step ==
    /\ pc' = Succ(pc)
    /\ trace' = Append(trace, pc)
    /\ UNCHANGED <<err, changed, same, prev>>

\* The statement at pc raises.
Raise(kind) ==
    /\ pc' = OnError(pc)
    /\ err' = kind
    /\ trace' = Append(trace, pc)
    /\ UNCHANGED <<changed, same, prev>>

\* The process is started: main() up to the call of process_song_data.
Main ==
    /\ pc \in {"idle", "aborted", "done"}
    /\ run < MaxRuns
    /\ pc' = MainEntry
    /\ run' = run + 1
    /\ err' = "none"
    /\ trace' = << >>
    /\ appended' = NoRows
    /\ df' = EmptyBag
    /\ prev' = [err |-> err, rows |-> RowCounts(storage)]
    /\ same' = ~changed
    /\ changed' = FALSE
    /\ UNCHANGED <<input, storage>>

\* Between two runs a song file disappears from the input location.
RemoveSongFile ==
    /\ pc = "aborted"
    /\ ~changed
    /\ run < MaxRuns
    /\ \E r \in DOMAIN input.songs :
         input' = [input EXCEPT !.songs = @ (-) SetToBag({r})]
    /\ changed' = TRUE
    /\ UNCHANGED <<storage, pc, df, run, err, trace, appended, same, prev>>

\* df = spark.read.json(song_data)
SongRead ==
    /\ pc = "L38"
    /\ \/ /\ df' = input.songs
          /\ Step
       \/ /\ Raise("engine")
          /\ UNCHANGED df
    /\ UNCHANGED <<input, storage, run, appended>>

\* A table write: the rows are appended, or the engine raises and leaves
\* behind whichever part files of this write were already in place.
Write(t, rows) ==
    \/ /\ storage' = [storage EXCEPT ![t] = WriteAppend(@, rows)]
       /\ appended' = [appended EXCEPT ![t] = @ (+) rows]
       /\ Step
    \/ \E part \in SubBag(rows) :
          /\ storage' = [storage EXCEPT ![t] = WriteAppend(@, part)]
          /\ appended' = [appended EXCEPT ![t] = @ (+) part]
          /\ Raise("engine")

\* songs_table = df.select(...).dropDuplicates(); songs_table.write...
SongsWrite ==
    /\ pc = "L48"
    /\ Write("songs",
             DropDuplicates(Select(df, [r \in DOMAIN df |-> SongCols(r)])))
    /\ UNCHANGED <<input, df, run>>

\* artists_table = df.select(...).dropDuplicates(); artists_table.write...
ArtistsWrite ==
    /\ pc = "L58"
    /\ Write("artists",
             DropDuplicates(Select(df, [r \in DOMAIN df |-> ArtistCols(r)])))
    /\ UNCHANGED <<input, df, run>>

\* df = spark.read.json(log_data); df = df[df['page'] == 'NextSong']
LogRead ==
    /\ pc = "L75"
    /\ \/ /\ df' = FilterNextSong(input.logs)
          /\ Step
       \/ /\ Raise("engine")
          /\ UNCHANGED df
    /\ UNCHANGED <<input, storage, run, appended>>

\* users_table = df.select(...).dropDuplicates(); users_table.write...
UsersWrite ==
    /\ pc = "L88"
    /\ Write("users",
             DropDuplicates(Select(df, [r \in DOMAIN df |-> UserCols(r)])))
    /\ UNCHANGED <<input, df, run>>

\* get_timestamp = udf(lambda ..., TimestampType()): the name lookup fails.
GetTimestamp ==
    /\ pc = "L91"
    /\ "TimestampType" \notin ModuleNames
    /\ Raise("NameError")
    /\ UNCHANGED <<input, storage, df, run, appended>>

Next ==
    \/ Main
    \/ RemoveSongFile
    \/ SongRead
    \/ SongsWrite
    \/ ArtistsWrite
    \/ LogRead
    \/ UsersWrite
    \/ GetTimestamp

Spec == Init /\ [][Next]_vars

\* ------------------------------------------------------------ properties
RunEnded == pc \in {"aborted", "done"}

\* The statement completed normally in the current run.
Completed(stmt) ==
    \E i \in DOMAIN trace :
        trace[i] = stmt /\ (err = "none" \/ i < Len(trace))

Plays == {r \in DOMAIN input.logs : r.page = "NextSong"}

\* The songplays row the spec derives from log record r and songs row s.
IsPlayOf(row, r, s) ==
    /\ row.start_time = r.ts
    /\ row.user_id = r.userId
    /\ row.level = r.level
    /\ row.session_id = r.sessionId
    /\ row.song_id = s.song_id
    /\ row.artist_id = s.artist_id

Matches(r, s) == s.title = r.song /\ s.duration = r.length

\* The columns each table selects, by the input field each one comes from.
Selected ==
    [songs |-> [song_id |-> "song_id", title |-> "title",
                artist_id |-> "artist_id", year |-> "year",
                duration |-> "duration"],
     artists |-> [artist_id |-> "artist_id", artist_name |-> "artist_name",
                  artist_location |-> "artist_location",
                  artist_latitude |-> "artist_latitude",
                  artist_longitude |-> "artist_longitude"],
     users |-> [user_id |-> "userId", first_name |-> "firstName",
                last_name |-> "lastName", gender |-> "gender",
                level |-> "level"]]

Tuple(t, r) == [c \in DOMAIN Selected[t] |-> r[Selected[t][c]]]

\* The input records a table is derived from.
Sources(t) == IF t = "users" THEN Plays ELSE DOMAIN input.songs

C3_PlayAppearsIffSongMatches ==
    (RunEnded /\ err # "engine") =>
        \A r \in Plays :
            (\E row \in DOMAIN appended["songplays"] :
                \E s \in DOMAIN storage["songs"] : IsPlayOf(row, r, s))
            <=> (\E s \in DOMAIN storage["songs"] : Matches(r, s))

\* C5: every row a run appends to users, time or songplays comes from a log
\* record whose page is NextSong.
C5_RowsOnlyFromNextSong ==
    /\ \A row \in DOMAIN appended["users"] :
          \E r \in Plays : row = Tuple("users", r)
    /\ \A row \in DOMAIN appended["time"] :
          \E r \in Plays : row.start_time = r.ts
    /\ \A row \in DOMAIN appended["songplays"] :
          \E r \in Plays : row.start_time = r.ts /\ row.user_id = r.userId

C5_Witness ==
    /\ pc = "L91"
    /\ appended["users"] # EmptyBag
    /\ \E r \in DOMAIN input.logs :
          r.page # "NextSong" /\ Tuple("users", r) \notin DOMAIN appended["users"]

\* C6: a completed write of songs, artists or users appends exactly one row
\* per distinct tuple of the selected columns of the input records.
C6_OneRowPerDistinctTuple ==
    \A t \in {"songs", "artists", "users"} :
        (Completed(WriteStmt[t]) /\ ~changed) =>
            /\ \A r \in Sources(t) : Tuple(t, r) \in DOMAIN appended[t]
            /\ \A row \in DOMAIN appended[t] :
                  /\ appended[t][row] = 1
                  /\ \E r \in Sources(t) : row = Tuple(t, r)

C6_Witness ==
    /\ pc = "L91"
    /\ BagCardinality(input.songs) = 2
    /\ BagCardinality(appended["songs"]) = 1
    /\ BagCardinality(appended["artists"]) = 2
    /\ \E r1, r2 \in Plays :
          /\ r1.userId = r2.userId /\ r1.level # r2.level
          /\ BagCardinality(appended["users"]) = 2

\* C7: once a statement of a run has raised, the run is over (no statement
\* is pending), no statement of the run was executed twice, and no table
\* whose write had not been reached holds a row of this run.
C7_ErrorsAreFatal ==
    err # "none" =>
        /\ pc = "aborted"
        /\ trace # << >>
        /\ \A i, j \in DOMAIN trace : trace[i] = trace[j] => i = j
        /\ \A t \in Tables :
              WriteStmt[t] \notin Range(trace) => appended[t] = EmptyBag

C7_Witness ==
    /\ err = "engine"
    /\ trace[Len(trace)] = "L58"
    /\ appended["songs"] # EmptyBag
    /\ appended["users"] = EmptyBag

\* C9: no step removes a row from the output location: every table after a
\* step holds at least the copies of every row it held before.
C9_AppendOnly ==
    [][\A t \in Tables : storage[t] \sqsubseteq storage'[t]]_vars

C9_Witness ==
    /\ run = 2
    /\ prev.err = "engine"
    /\ prev.rows["songs"] > 0
    /\ \E row \in DOMAIN storage["songs"] : storage["songs"][row] = 2
    /\ appended["users"] # EmptyBag

\* C10: when a run ends without an engine error, a play matching a songs
\* row that an earlier run wrote and that is not among the run's own song
\* input has a songplays row, and the songplays rows of the run are
\* pairwise distinct.
C10_JoinUsesAccumulatedSongs ==
    (RunEnded /\ err # "engine" /\ ~changed) =>
        /\ \A r \in Plays :
              \A s \in DOMAIN storage["songs"] :
                 (Matches(r, s) /\ \A x \in DOMAIN input.songs : Tuple("songs", x) # s)
                 => \E row \in DOMAIN appended["songplays"] : IsPlayOf(row, r, s)
        /\ \A row \in DOMAIN appended["songplays"] :
              appended["songplays"][row] = 1

====
